---- MODULE Spec2Model ----
(***************************************************************************)
(* Model of realsense::RealSenseBase (realsense_ros/src/rs_base.cpp): the  *)
(* stream configuration state (enable_, stream_info_, cfg_), the pipeline  *)
(* handle, the calibration cache, the reconfiguration handlers             *)
(* toggleStream / changeResolution / changeFPS and the video publish path. *)
(*                                                                         *)
(* The librealsense objects rs2::config and rs2::pipeline are modelled by  *)
(* the calls the source makes on them:                                     *)
(*   - rs2::config is a map from stream to the request last made for it;   *)
(*   - can_resolve / resolve succeed iff every request of the whole config *)
(*     is a profile the device offers;                                     *)
(*   - a started pipeline streams the profiles of the config it was        *)
(*     started with, until it is stopped; a later change of the config     *)
(*     object does not touch a running pipeline;                           *)
(*   - start throws when the config cannot be resolved or the device       *)
(*     cannot be acquired; stop on a pipeline that is not running either   *)
(*     does nothing or throws.                                             *)
(* The model covers the video streams; the motion and pose streams, which  *)
(* have no resolution or frame rate and whose frames the base class does   *)
(* not publish, are left out.                                              *)
(***************************************************************************)
EXTENDS Integers, Sequences, FiniteSets, TLC

VARIABLES
  phase,          \* "setup" | "run" | "failed" (startPipeline threw)
  enable_,        \* std::map<stream_index_pair, bool>
  stream_info_,   \* std::map<stream_index_pair, VideoStreamInfo>
  cfg_,           \* rs2::config
  pipeline_,      \* rs2::pipeline
  camera_info_,   \* std::map<stream_index_pair, sensor_msgs::msg::CameraInfo>
  image_pub_,     \* keys of image_pub_ / camera_info_pub_
  published,      \* the messages the last call published
  last,           \* the last call, on either thread, with its result
  trace,          \* pipeline operations performed by that call, in order
  disabled_state  \* enable_ and cfg_ as they were before the enabling toggleStream
                  \* that the last call was, or that the last call disabled again

vars == <<phase, enable_, stream_info_, cfg_, pipeline_, camera_info_,
          image_pub_, published, last, trace, disabled_state>>

----------------------------------------------------------------------------
\* Bounds

\* frame timestamps handed to publishImageTopic are drawn from 1..MaxTime
MaxTime == 1

----------------------------------------------------------------------------
\* Stream catalog

COLOR == "COLOR"
DEPTH == "DEPTH"

Streams == {COLOR, DEPTH}

DEFAULT_IMAGE_FPS == 30

OPTICAL_FRAME_ID(s) ==
  IF s = COLOR THEN "camera_color_optical_frame" ELSE "camera_depth_optical_frame"

----------------------------------------------------------------------------
\* Integers.  A parameter integer is an int64_t; it is kept as the pair
\* (hi, lo) with value hi * 2^32 + lo and lo in the range of a 32-bit int,
\* so that the narrowing to int is exact: it keeps lo.

I64(hi, lo) == [hi |-> hi, lo |-> lo]

\* static_cast<int>(int64_t), and the implicit narrowing at an int argument
ToInt(v) == v.lo

DEFAULT_IMAGE_RESOLUTION == <<I64(0, 640), I64(0, 480)>>

\* the int n and the int64_t v are the same number
SameNumber(n, v) == v.hi = 0 /\ v.lo = n

----------------------------------------------------------------------------
\* rclcpp::Parameter values

\* the array of a parameter of another type, as far as the handlers look at it
NoArray == <<I64(0, 0), I64(0, 0)>>

BoolParam(b) == [type |-> "bool", b |-> b, arr |-> NoArray, i |-> I64(0, 0)]
ArrayParam(a) == [type |-> "integer_array", b |-> FALSE, arr |-> a, i |-> I64(0, 0)]
IntParam(v) == [type |-> "integer", b |-> FALSE, arr |-> NoArray, i |-> v]

\* values a caller sends
ResolutionValues ==
  { <<I64(0, 640), I64(0, 480)>>,
    <<I64(0, 1280), I64(0, 720)>>,
    <<I64(1, 640), I64(0, 480)>> }      \* 4294967936 x 480

FpsValues == { I64(0, 30), I64(0, 15), I64(1, 15) }     \* 30, 15, 4294967311

BoolParams == {BoolParam(b) : b \in BOOLEAN}
ArrayParams == {ArrayParam(a) : a \in ResolutionValues}
IntParams == {IntParam(v) : v \in FpsValues}

\* the parameters a handler is called with: those of its type, and one of
\* another type
ParamsOf(type) ==
  IF type = "bool" THEN BoolParams \cup {IntParam(I64(0, 30))}
  ELSE IF type = "integer_array" THEN ArrayParams \cup {BoolParam(TRUE)}
  ELSE IntParams \cup {ArrayParam(<<I64(0, 640), I64(0, 480)>>)}

----------------------------------------------------------------------------
\* rs2::config and rs2::pipeline

NoRequest == [kind |-> "none", width |-> 0, height |-> 0, fps |-> 0]
VideoRequest(w, h, f) == [kind |-> "video", width |-> w, height |-> h, fps |-> f]

\* the (width, height, fps) the device offers for a stream: three modes of
\* the colour sensor, one of the depth sensor
DeviceProfiles(s) ==
  IF s = COLOR THEN { <<640, 480, 30>>, <<640, 480, 15>>, <<1280, 720, 30>> }
  ELSE { <<640, 480, 30>> }

EmptyConfig == [s \in Streams |-> NoRequest]

\* cfg_.enable_stream(type, index, width, height, format, fps)
enable_stream(cfg, s, w, h, f) == [cfg EXCEPT ![s] = VideoRequest(w, h, f)]

\* cfg_.disable_stream(type, index)
disable_stream(cfg, s) == [cfg EXCEPT ![s] = NoRequest]

\* the stream is present in the configuration
HasStream(cfg, s) == cfg[s].kind # "none"

\* cfg_.can_resolve(pipeline_): every request of the config is offered
can_resolve(cfg) ==
  \A s \in Streams :
    cfg[s].kind = "video"
      => <<cfg[s].width, cfg[s].height, cfg[s].fps>> \in DeviceProfiles(s)

StoppedPipeline == [running |-> FALSE, active |-> EmptyConfig]

\* the choices of the SDK and the device during one call: whether the device
\* can be acquired by a start (one of startOks), and whether a stop of a
\* pipeline that is not running throws
SdkChoices(pipe, startOks) ==
  [startOk : startOks, stopThrows : IF pipe.running THEN {FALSE} ELSE BOOLEAN]

\* pipeline_.stop()
pipeline_stop(pipe, sdk) ==
  IF pipe.running THEN [ok |-> TRUE, pipe |-> StoppedPipeline]
  ELSE [ok |-> ~sdk.stopThrows, pipe |-> pipe]

\* pipeline_.start(cfg_, callback)
pipeline_start(pipe, cfg, sdk) ==
  IF ~pipe.running /\ sdk.startOk /\ can_resolve(cfg)
    THEN [ok |-> TRUE, pipe |-> [running |-> TRUE, active |-> cfg]]
    ELSE [ok |-> FALSE, pipe |-> pipe]

----------------------------------------------------------------------------
\* Calibration cache

EmptyCameraInfo ==
  [width |-> 0, height |-> 0, frame_id |-> "", distortion_model |-> "", stamp |-> 0]

\* RealSenseBase::updateVideoStreamCalibData for the profile (s, w, h).  The
\* matrices k, p, r and the coefficients d copy the intrinsics of the device
\* and are read by no handler; the record keeps the fields that tell a
\* populated record from an empty one and one profile from another.
updateVideoStreamCalibData(calib, s, w, h) ==
  [calib EXCEPT ![s] = [@ EXCEPT !.width = w, !.height = h,
                                 !.frame_id = OPTICAL_FRAME_ID(s),
                                 !.distortion_model = "plumb_bob"]]

\* the loop of startPipeline over the resolved profiles
CalibrateAll(calib, cfg) ==
  [s \in Streams |->
     IF cfg[s].kind = "video"
       THEN updateVideoStreamCalibData(calib, s, cfg[s].width, cfg[s].height)[s]
       ELSE calib[s]]

----------------------------------------------------------------------------
\* Results of a call

Ok == [threw |-> FALSE, successful |-> TRUE, reason |-> ""]
Failure(reason) == [threw |-> FALSE, successful |-> FALSE, reason |-> reason]
Threw == [threw |-> TRUE, successful |-> FALSE, reason |-> ""]

\* the part of the object a handler works on
Current == [enable |-> enable_, info |-> stream_info_, cfg |-> cfg_, pipe |-> pipeline_]

Outcome(st, ops, result) ==
  [enable |-> st.enable, info |-> st.info, cfg |-> st.cfg, pipe |-> st.pipe,
   trace |-> ops, result |-> result]

----------------------------------------------------------------------------
\* Reconfiguration handlers.  Each takes the state it starts from and gives
\* the state it leaves, the pipeline operations it performed and its result;
\* a call that throws leaves the state reached when the exception was raised.

\* an early return that comes only after the pipeline was stopped
RejectStopped(st, reason) ==
  Outcome([st EXCEPT !.pipe = StoppedPipeline], <<"stop">>, Failure(reason))

\* an early return with a reason, before anything was touched
Reject(st, reason) == Outcome(st, <<>>, Failure(reason))

\* a rejection that comes only after the pipeline of an enabled stream was
\* stopped for the restart
RejectUnresolvedStopped(st, reason) ==
  Outcome([st EXCEPT !.pipe = StoppedPipeline], <<"stop">>, Failure(reason))

\* the else branch of "if (cfg_.can_resolve(pipeline_))"
RejectUnresolved(st, reason) == Outcome(st, <<>>, Failure(reason))

\* a restart that returns once the pipeline is stopped and leaves the start
\* to a later event
RestartStopOnly(pipe, cfg, settle, sdk) ==
  LET stop == pipeline_stop(pipe, sdk)
  IN  [ok |-> stop.ok, pipe |-> stop.pipe, ops |-> <<"stop">>]

\* pipeline_.stop(); [rclcpp::sleep_for(200ms);] pipeline_.start(cfg_, ...)
Restart(pipe, cfg, settle, sdk) ==
  LET stop == pipeline_stop(pipe, sdk)
      start == pipeline_start(stop.pipe, cfg, sdk)
      ops == IF settle THEN <<"stop", "sleep_for", "start">> ELSE <<"stop", "start">>
  IN  IF ~stop.ok THEN [ok |-> FALSE, pipe |-> pipe, ops |-> <<"stop">>]
      ELSE [ok |-> start.ok, pipe |-> start.pipe, ops |-> ops]

\* the request toggleStream makes when it enables a video stream
EnableRequest(st, stream) ==
  enable_stream(st.cfg, stream, st.info[stream].width, st.info[stream].height,
                st.info[stream].fps)

\* toggleStream with the enable flag set before the restart
toggleStreamFlagFirst(st, stream, param, sdk) ==
  IF param.type # "bool" THEN Reject(st, "Type should be boolean.")
  ELSE IF param.b = TRUE /\ st.enable[stream] = FALSE THEN
    LET cfg1 == EnableRequest(st, stream)
        r == Restart(st.pipe, cfg1, TRUE, sdk)
    IN  Outcome([st EXCEPT !.cfg = cfg1, !.pipe = r.pipe, !.enable[stream] = TRUE],
                r.ops, IF r.ok THEN Ok ELSE Threw)
  ELSE IF param.b = FALSE /\ st.enable[stream] = TRUE THEN
    Outcome([st EXCEPT !.cfg = disable_stream(st.cfg, stream), !.enable[stream] = FALSE],
            <<>>, Ok)
  ELSE Reject(st, "Parameter is equal to the previous value. Do nothing.")

\* RealSenseBase::toggleStream
toggleStream(st, stream, param, sdk) ==
  IF param.type # "bool" THEN Reject(st, "Type should be boolean.")
  ELSE IF param.b = TRUE /\ st.enable[stream] = FALSE THEN
    LET cfg1 == EnableRequest(st, stream)
        r == Restart(st.pipe, cfg1, TRUE, sdk)
    IN  IF ~r.ok
          THEN Outcome([st EXCEPT !.cfg = cfg1, !.pipe = r.pipe], r.ops, Threw)
          ELSE Outcome([st EXCEPT !.cfg = cfg1, !.pipe = r.pipe, !.enable[stream] = TRUE],
                       r.ops, Ok)
  ELSE IF param.b = FALSE /\ st.enable[stream] = TRUE THEN
    Outcome([st EXCEPT !.cfg = disable_stream(st.cfg, stream), !.enable[stream] = FALSE],
            <<>>, Ok)
  ELSE Reject(st, "Parameter is equal to the previous value. Do nothing.")

\* stream_info_[stream].width = ...; stream_info_[stream].height = ...
CommitResolution(info, stream, w, h) ==
  [info EXCEPT ![stream].width = w, ![stream].height = h]

\* stream_info_[stream].fps = fps
CommitFPS(info, stream, f) == [info EXCEPT ![stream].fps = f]

\* what follows the proposal cfg1 in changeResolution and changeFPS:
\* can_resolve, the restart of an enabled stream, the commit or the rejection
ApplyProposal(st, stream, cfg1, info1, reason, sdk) ==
  LET st1 == [st EXCEPT !.cfg = cfg1]
  IN  IF can_resolve(cfg1) THEN
        IF st.enable[stream] = TRUE THEN
          LET r == Restart(st.pipe, cfg1, FALSE, sdk)
          IN  IF ~r.ok
                THEN Outcome([st1 EXCEPT !.pipe = r.pipe], r.ops, Threw)
                ELSE Outcome([st1 EXCEPT !.pipe = r.pipe, !.info = info1], r.ops, Ok)
        ELSE Outcome([st1 EXCEPT !.info = info1], <<>>, Ok)
      ELSE RejectUnresolved(st1, reason)

\* RealSenseBase::changeResolution, for an array of two elements
changeResolution(st, stream, param, sdk) ==
  IF param.type # "integer_array" THEN Reject(st, "Type should be integer array.")
  ELSE LET res == param.arr
       IN  ApplyProposal(st, stream,
             enable_stream(st.cfg, stream, ToInt(res[1]), ToInt(res[2]), st.info[stream].fps),
             CommitResolution(st.info, stream, ToInt(res[1]), ToInt(res[2])),
             "Unsupported resolution.", sdk)

\* RealSenseBase::changeFPS
changeFPS(st, stream, param, sdk) ==
  IF param.type # "integer" THEN Reject(st, "Type should be integer.")
  ELSE LET fps == ToInt(param.i)
       IN  ApplyProposal(st, stream,
             enable_stream(st.cfg, stream, st.info[stream].width, st.info[stream].height, fps),
             CommitFPS(st.info, stream, fps),
             "Unsupported configuration.", sdk)

----------------------------------------------------------------------------
\* Publishing

ImageMsg(s, w, h, t) ==
  [kind |-> "image", stream |-> s, frame_id |-> OPTICAL_FRAME_ID(s), stamp |-> t,
   width |-> w, height |-> h, distortion_model |-> ""]

CameraInfoMsg(s, info) ==
  [kind |-> "camera_info", stream |-> s, frame_id |-> info.frame_id, stamp |-> info.stamp,
   width |-> info.width, height |-> info.height, distortion_model |-> info.distortion_model]

\* publishImageTopic with an image that leaves the intra-process path
\* without its time
publishImageTopicIntraUnstamped(calib, s, w, h, t, intra) ==
  LET img == IF ~intra THEN ImageMsg(s, w, h, t) ELSE ImageMsg(s, w, h, 0)
      calib1 == [calib EXCEPT ![s].stamp = t]
  IN  [calib |-> calib1, msgs |-> {img, CameraInfoMsg(s, calib1[s])}]

\* RealSenseBase::publishImageTopic for a frame of the profile (s, w, h)
publishImageTopic(calib, s, w, h, t, intra) ==
  LET img == IF ~intra THEN ImageMsg(s, w, h, t)     \* toImageMsg(), publish(*img)
             ELSE ImageMsg(s, w, h, t)               \* toImageMsg(*img), publish(std::move(img))
      calib1 == [calib EXCEPT ![s].stamp = t]
  IN  [calib |-> calib1, msgs |-> {img, CameraInfoMsg(s, calib1[s])}]

----------------------------------------------------------------------------
\* Actions

NoCall == [op |-> "construct", stream |-> "", param |-> BoolParam(FALSE), result |-> Ok]
Call(op, stream, param, result) ==
  [op |-> op, stream |-> stream, param |-> param, result |-> result]

NoSnapshot == [valid |-> FALSE, enable |-> [s \in Streams |-> FALSE], cfg |-> EmptyConfig]
Snapshot(st) == [valid |-> TRUE, enable |-> st.enable, cfg |-> st.cfg]

Init ==
  /\ phase = "setup"
  /\ enable_ = [s \in Streams |-> FALSE]
  /\ stream_info_ = [s \in Streams |-> [width |-> 0, height |-> 0, fps |-> 0]]
  /\ cfg_ = EmptyConfig
  /\ pipeline_ = StoppedPipeline
  /\ camera_info_ = [s \in Streams |-> EmptyCameraInfo]
  /\ image_pub_ = {}
  /\ published = {}
  /\ last = NoCall
  /\ trace = <<>>
  /\ disabled_state = NoSnapshot

\* values the declared parameters can take at startup
DeclaredResolutions == {DEFAULT_IMAGE_RESOLUTION}
DeclaredFps == {DEFAULT_IMAGE_FPS}

\* RealSenseBase::setupStream, for a video stream
SetupStream(stream, enable, res, fps) ==
  /\ phase = "setup"
  /\ stream \notin image_pub_
  /\ last' = Call("setupStream", stream, BoolParam(enable), Ok)
  /\ trace' = <<>>
  /\ LET info == [width |-> ToInt(res[1]), height |-> ToInt(res[2]), fps |-> fps]
     IN  /\ stream_info_' = [stream_info_ EXCEPT ![stream] = info]
         /\ image_pub_' = image_pub_ \cup {stream}
         /\ enable_' = IF enable THEN [enable_ EXCEPT ![stream] = TRUE] ELSE enable_
         /\ cfg_' = IF enable
                      THEN enable_stream(cfg_, stream, info.width, info.height, info.fps)
                      ELSE cfg_
  /\ UNCHANGED <<phase, pipeline_, camera_info_, published, disabled_state>>

\* RealSenseBase::startPipeline, called once every stream is set up
StartPipeline(sdk) ==
  /\ phase = "setup"
  /\ image_pub_ = Streams
  /\ IF can_resolve(cfg_)
       THEN LET start == pipeline_start(pipeline_, cfg_, sdk)
            IN  /\ camera_info_' = CalibrateAll(camera_info_, cfg_)
                /\ pipeline_' = start.pipe
                /\ trace' = <<"start">>
                /\ phase' = IF start.ok THEN "run" ELSE "failed"
                /\ last' = Call("startPipeline", "", BoolParam(FALSE),
                                IF start.ok THEN Ok ELSE Threw)
       ELSE /\ phase' = "failed"
            /\ trace' = <<>>
            /\ last' = Call("startPipeline", "", BoolParam(FALSE), Threw)
            /\ UNCHANGED <<camera_info_, pipeline_>>
  /\ UNCHANGED <<enable_, stream_info_, cfg_, image_pub_, published, disabled_state>>

\* a handler that also refreshes the calibration cache from the SDK
\* configuration it leaves, without regard to the pipeline
HandledCalibrating(op, stream, param, o) ==
  /\ last' = Call(op, stream, param, o.result)
  /\ trace' = o.trace
  /\ enable_' = o.enable
  /\ stream_info_' = o.info
  /\ cfg_' = o.cfg
  /\ pipeline_' = o.pipe
  /\ published' = {}
  /\ camera_info_' = CalibrateAll(camera_info_, o.cfg)
  /\ UNCHANGED <<phase, image_pub_>>

\* a handler ran on the middleware thread and left the outcome o
Handled(op, stream, param, o) ==
  /\ last' = Call(op, stream, param, o.result)
  /\ trace' = o.trace
  /\ enable_' = o.enable
  /\ stream_info_' = o.info
  /\ cfg_' = o.cfg
  /\ pipeline_' = o.pipe
  /\ published' = {}
  /\ UNCHANGED <<phase, camera_info_, image_pub_>>

\* the last call was toggleStream(stream, true), it found the stream disabled
\* and returned successfully
JustEnabled(stream) ==
  /\ disabled_state.valid
  /\ last.op = "toggleStream" /\ last.stream = stream
  /\ last.param = BoolParam(TRUE) /\ last.result = Ok

\* the outcomes of a handler, over the choices of the SDK
Outcomes(handler(_, _, _, _), stream, param, startOks) ==
  { handler(Current, stream, param, sdk) : sdk \in SdkChoices(pipeline_, startOks) }

ToggleStream(stream, param, startOks) ==
  /\ phase = "run"
  /\ \E o \in Outcomes(toggleStream, stream, param, startOks) :
       /\ Handled("toggleStream", stream, param, o)
       /\ disabled_state' =
            IF param = BoolParam(TRUE) /\ ~enable_[stream] /\ o.result = Ok
              THEN Snapshot(Current)
            ELSE IF param = BoolParam(FALSE) /\ JustEnabled(stream) /\ o.result = Ok
              THEN disabled_state
            ELSE NoSnapshot

ChangeResolution(stream, param, startOks) ==
  /\ phase = "run"
  /\ \E o \in Outcomes(changeResolution, stream, param, startOks) :
       Handled("changeResolution", stream, param, o)
  /\ disabled_state' = NoSnapshot

ChangeFPS(stream, param, startOks) ==
  /\ phase = "run"
  /\ \E o \in Outcomes(changeFPS, stream, param, startOks) :
       Handled("changeFPS", stream, param, o)
  /\ disabled_state' = NoSnapshot

\* the frame and the time publishImageTopic is called with, and the path
\* use_intra_process_comms() selects
FrameParam(intra, t) == [type |-> "frame", b |-> intra, arr |-> NoArray, i |-> I64(0, t)]

\* the SDK callback thread delivers a video frame of an active profile with
\* the time t, on either path of use_intra_process_comms()
PublishImageTopic(stream, t) ==
  /\ phase = "run"
  /\ pipeline_.running
  /\ pipeline_.active[stream].kind = "video"
  /\ \E intra \in BOOLEAN :
       LET p == pipeline_.active[stream]
           r == publishImageTopic(camera_info_, stream, p.width, p.height, t, intra)
       IN  /\ camera_info_' = r.calib
           /\ published' = r.msgs
           /\ last' = Call("publishImageTopic", stream, FrameParam(intra, t), Ok)
  /\ trace' = <<>>
  /\ disabled_state' = NoSnapshot
  /\ UNCHANGED <<phase, enable_, stream_info_, cfg_, pipeline_, image_pub_>>

\* the steps of the program, with a device whose starts succeed as startOks says
Step(startOks) ==
  \/ \E s \in Streams, e \in BOOLEAN, res \in DeclaredResolutions, f \in DeclaredFps :
       SetupStream(s, e, res, f)
  \/ \E sdk \in SdkChoices(pipeline_, startOks) : StartPipeline(sdk)
  \/ \E s \in Streams, p \in ParamsOf("bool") : ToggleStream(s, p, startOks)
  \/ \E s \in Streams, p \in ParamsOf("integer_array") : ChangeResolution(s, p, startOks)
  \/ \E s \in Streams, p \in ParamsOf("integer") : ChangeFPS(s, p, startOks)
  \/ \E s \in Streams, t \in 1..MaxTime : PublishImageTopic(s, t)

\* every start may fail to acquire the device
Next == Step(BOOLEAN)

Spec == Init /\ [][Next]_vars

\* the device can always be acquired: a start throws only when the
\* configuration cannot be resolved
NextDeviceReady == Step({TRUE})

SpecDeviceReady == Init /\ [][NextDeviceReady]_vars

----------------------------------------------------------------------------
\* Vocabulary of the properties

ReconfigurationOps == {"toggleStream", "changeResolution", "changeFPS"}

\* In a step of Next that is not a stuttering step, last' names a
\* reconfiguration handler exactly when the step is a call of that handler;
\* the unprimed variables are then the state the call started from.
CallReturns == last'.op \in ReconfigurationOps

\* the call returned successful = false
ReturnedFalse(call) == ~call.result.threw /\ ~call.result.successful

\* the profile (width, height, fps) of a request of the configuration
ProfileOf(req) == [width |-> req.width, height |-> req.height, fps |-> req.fps]

\* updateVideoStreamCalibData has filled the record
Populated(info) ==
  info.distortion_model = "plumb_bob" /\ info.frame_id # ""

\* the last event is a frame of the stream, published with its camera info
FramePublished(s) == last.op = "publishImageTopic" /\ last.stream = s

----------------------------------------------------------------------------
\* C1: after any reconfiguration call that returns successful = false, the
\* stream's stream_info_ and enable_ entries and the SDK configuration are
\* what they were before the call.
C1_FailedCallLeavesStateAndConfig ==
  [][ (CallReturns /\ ReturnedFalse(last'))
        => /\ stream_info_'[last'.stream] = stream_info_[last'.stream]
           /\ enable_'[last'.stream] = enable_[last'.stream]
           /\ cfg_' = cfg_ ]_vars

\* C2: between calls, a stream is present in the SDK configuration if and
\* only if its enable flag is set.
C2_ConfigHasStreamIffEnabled ==
  \A s \in Streams : HasStream(cfg_, s) <=> enable_[s]

\* C3: when a reconfiguration call has returned successfully and the
\* pipeline is running, the pipeline streams exactly the enabled streams,
\* each with the (width, height, fps) of stream_info_.
C3_RunningPipelineIsCurrent ==
  (last.op \in ReconfigurationOps /\ last.result = Ok /\ pipeline_.running)
    => \A s \in Streams :
         /\ HasStream(pipeline_.active, s) <=> enable_[s]
         /\ enable_[s] => ProfileOf(pipeline_.active[s]) = stream_info_[s]

\* C4: whenever a frame of a stream is published, the calibration record
\* of the stream has been populated by updateVideoStreamCalibData.
C4_CalibratedBeforeFirstFrame ==
  \A s \in Streams : FramePublished(s) => Populated(camera_info_[s])

\* C5: the camera info published with a frame of an enabled, calibrated
\* stream carries the width and height that changeResolution last
\* committed for the stream and that the running pipeline resolved.
C5_CameraInfoHasCommittedResolution ==
  \A s \in Streams :
    (FramePublished(s) /\ enable_[s] /\ Populated(camera_info_[s])
       /\ ProfileOf(pipeline_.active[s]) = stream_info_[s])
      => \A m \in published :
           m.kind = "camera_info"
             => m.width = stream_info_[s].width /\ m.height = stream_info_[s].height

\* C6: no frame of a stream is published while the stream is disabled.
C6_NoFrameOfDisabledStream ==
  \A s \in Streams : FramePublished(s) => enable_[s]

\* C7: toggleStream(s, true) on a disabled stream followed by
\* toggleStream(s, false) leaves enable_ and the SDK configuration as they
\* were before the two calls.
C7_EnableThenDisableRestores ==
  (disabled_state.valid /\ last.op = "toggleStream"
     /\ last.param = BoolParam(FALSE) /\ last.result = Ok)
    => enable_ = disabled_state.enable /\ cfg_ = disabled_state.cfg

\* C8: a successful changeResolution(s, [w, h]) sets the width and height
\* of stream_info_[s] to w and h and leaves its fps, enable_ and the other
\* streams' stream_info_ alone; a successful changeFPS(s, f) sets only the
\* fps of stream_info_[s], to f.
C8_SuccessfulChangeCommitsRequest ==
  [][ /\ (last'.op = "changeResolution" /\ last'.result = Ok)
          => /\ SameNumber(stream_info_'[last'.stream].width, last'.param.arr[1])
             /\ SameNumber(stream_info_'[last'.stream].height, last'.param.arr[2])
             /\ stream_info_'[last'.stream].fps = stream_info_[last'.stream].fps
             /\ enable_' = enable_
             /\ \A o \in Streams \ {last'.stream} : stream_info_'[o] = stream_info_[o]
      /\ (last'.op = "changeFPS" /\ last'.result = Ok)
          => /\ SameNumber(stream_info_'[last'.stream].fps, last'.param.i)
             /\ stream_info_'[last'.stream].width = stream_info_[last'.stream].width
             /\ stream_info_'[last'.stream].height = stream_info_[last'.stream].height
             /\ enable_' = enable_
             /\ \A o \in Streams \ {last'.stream} : stream_info_'[o] = stream_info_[o]
    ]_vars

\* C8 for requests that fit an int: a successful changeResolution or
\* changeFPS whose numbers are in the range of int commits exactly them.
C8_InRangeChangeCommitsRequest ==
  [][ /\ (last'.op = "changeResolution" /\ last'.result = Ok
            /\ last'.param.arr[1].hi = 0 /\ last'.param.arr[2].hi = 0)
          => /\ stream_info_'[last'.stream]
                  = [width |-> last'.param.arr[1].lo, height |-> last'.param.arr[2].lo,
                     fps |-> stream_info_[last'.stream].fps]
             /\ enable_' = enable_
             /\ \A o \in Streams \ {last'.stream} : stream_info_'[o] = stream_info_[o]
      /\ (last'.op = "changeFPS" /\ last'.result = Ok /\ last'.param.i.hi = 0)
          => /\ stream_info_'[last'.stream]
                  = [stream_info_[last'.stream] EXCEPT !.fps = last'.param.i.lo]
             /\ enable_' = enable_
             /\ \A o \in Streams \ {last'.stream} : stream_info_'[o] = stream_info_[o]
    ]_vars

\* the reason a call is rejected with before it reaches the SDK, "" if it is not
EarlyReason(call, enable) ==
  IF call.op = "toggleStream" /\ call.param.type # "bool" THEN "Type should be boolean."
  ELSE IF call.op = "changeResolution" /\ call.param.type # "integer_array"
    THEN "Type should be integer array."
  ELSE IF call.op = "changeFPS" /\ call.param.type # "integer" THEN "Type should be integer."
  ELSE IF call.op = "toggleStream" /\ call.param.b = enable[call.stream]
    THEN "Parameter is equal to the previous value. Do nothing."
  ELSE ""

\* C9: a call with a parameter of the wrong type, and a toggleStream whose
\* value equals the enable flag, returns successful = false with its fixed
\* reason, changes none of enable_, stream_info_ and the SDK configuration
\* and neither stops nor starts the pipeline.
C9_EarlyRejectionChangesNothing ==
  [][ (CallReturns /\ EarlyReason(last', enable_) # "")
        => /\ last'.result = Failure(EarlyReason(last', enable_))
           /\ UNCHANGED <<enable_, stream_info_, cfg_, pipeline_>>
           /\ trace' = <<>> ]_vars

C9_Witness ==
  /\ last.op = "toggleStream"
  /\ last.result = Failure("Parameter is equal to the previous value. Do nothing.")
  /\ enable_[last.stream]
  /\ pipeline_.running
  /\ HasStream(pipeline_.active, last.stream)

UnresolvedReasons == {"Unsupported resolution.", "Unsupported configuration."}

\* C10: when changeResolution or changeFPS on an enabled stream is rejected
\* because the configuration cannot be resolved, the call neither stops nor
\* starts the pipeline, the pipeline keeps the profiles it was streaming,
\* and the stream stays enabled with its (width, height, fps).
C10_UnresolvedRejectionKeepsPipeline ==
  [][ (CallReturns /\ ReturnedFalse(last') /\ last'.result.reason \in UnresolvedReasons
         /\ enable_[last'.stream])
        => /\ trace' = <<>>
           /\ pipeline_' = pipeline_
           /\ enable_'[last'.stream]
           /\ stream_info_'[last'.stream] = stream_info_[last'.stream] ]_vars

C10_Witness ==
  /\ last.op = "changeResolution"
  /\ last.result = Failure("Unsupported resolution.")
  /\ enable_[last.stream]
  /\ pipeline_.running
  /\ ProfileOf(pipeline_.active[last.stream]) = stream_info_[last.stream]
  /\ ProfileOf(cfg_[last.stream]) # stream_info_[last.stream]

\* the call performed a pipeline start, as the last pipeline operation it made
StartAttempted(ops) == Len(ops) > 0 /\ ops[Len(ops)] = "start"

\* C11: when the pipeline start of a reconfiguration call fails, the
\* pipeline is as it was before the call (running, with the configuration
\* it had), and enable_, stream_info_ and the SDK configuration have their
\* values of before the call.
C11_StartFailureKeepsCommittedState ==
  [][ (CallReturns /\ last'.result = Threw /\ StartAttempted(trace'))
        => /\ pipeline_' = pipeline_
           /\ UNCHANGED <<enable_, stream_info_, cfg_>> ]_vars

\* the messages of a kind the last call published for a stream
PublishedOf(kind, s) == {m \in published : m.kind = kind /\ m.stream = s}

\* C12: a frame of stream s published with the time t gives one image
\* message, with frame_id OPTICAL_FRAME_ID(s) and stamp t, and exactly one
\* camera-info message of s, with stamp t, on the intra-process path and on
\* the other.
C12_FrameHeaderAndCameraInfoStamp ==
  \A s \in Streams :
    FramePublished(s) =>
      LET t == last.param.i.lo
      IN  /\ Cardinality(PublishedOf("image", s)) = 1
          /\ \A m \in PublishedOf("image", s) :
               m.frame_id = OPTICAL_FRAME_ID(s) /\ m.stamp = t
          /\ Cardinality(PublishedOf("camera_info", s)) = 1
          /\ \A m \in PublishedOf("camera_info", s) : m.stamp = t
          /\ published = PublishedOf("image", s) \cup PublishedOf("camera_info", s)

\* a frame went out on the intra-process path
C12_Witness ==
  /\ FramePublished(COLOR)
  /\ last.param = FrameParam(TRUE, MaxTime)
  /\ \E m \in PublishedOf("image", COLOR) : m.stamp = MaxTime
  /\ \E m \in PublishedOf("camera_info", COLOR) : m.stamp = MaxTime

\* C13: in every restart a reconfiguration handler performs, the settling
\* delay comes between the stop and the start: no start follows a stop
\* directly.
C13_RestartSettlesBeforeStart ==
  last.op \in ReconfigurationOps
    => \A i \in 1..(Len(trace) - 1) :
         trace[i] = "stop" => trace[i + 1] # "start"

\* C14: between calls, the request the SDK configuration holds for a video
\* stream has the width, height and fps of stream_info_.
C14_ConfigMirrorsStreamInfo ==
  \A s \in Streams :
    HasStream(cfg_, s) => ProfileOf(cfg_[s]) = stream_info_[s]

\* the pipeline is streaming the stream: its frames reach publishImageTopic
Streaming(pipe, stream) == pipe.running /\ HasStream(pipe.active, stream)

\* the call is a successful changeResolution or changeFPS on the stream
SuccessfulChange(call, s) ==
  call.op \in {"changeResolution", "changeFPS"} /\ call.stream = s /\ call.result = Ok

\* C15: a successful changeResolution or changeFPS on a disabled stream
\* performs no pipeline operation, and the pipeline does not come to stream
\* that stream by a following call other than toggleStream(s, true), such
\* as a reconfiguration of another stream.
C15_DeferredChangeWaitsForEnable ==
  [][ \A s \in Streams :
        (SuccessfulChange(last, s) /\ ~enable_[s] /\ ~Streaming(pipeline_, s))
          => /\ trace = <<>>
             /\ (CallReturns /\ ~(last'.op = "toggleStream" /\ last'.stream = s
                                    /\ last'.param = BoolParam(TRUE)))
                  => ~Streaming(pipeline_', s) ]_vars

\* C16: a reconfiguration call made while the pipeline is running, and
\* whose pipeline start does not fail, returns with the pipeline running;
\* and a call that stops the pipeline starts it again before it returns,
\* so no other parameter event falls between the stop and the start.
C16_RestartCompletesBeforeReturn ==
  [][ (CallReturns /\ ~last'.result.threw)
        => /\ pipeline_.running => pipeline_'.running
           /\ \A i \in 1..Len(trace') :
                trace'[i] = "stop" => StartAttempted(trace') /\ pipeline_'.running ]_vars

C16_Witness ==
  /\ last.op = "changeFPS"
  /\ last.result = Ok
  /\ trace = <<"stop", "start">>
  /\ pipeline_.running
  /\ pipeline_.active[last.stream].fps = 15
  /\ stream_info_[last.stream].fps = 15

\* C17: a step of the middleware thread (setup, startPipeline, a
\* reconfiguration handler) that writes camera_info_[s] or the publisher
\* entries of s is taken only while the pipeline is not streaming s,
\* however the frames of the callback thread interleave with these steps.
C17_MiddlewareWritesOnlyWhileStopped ==
  [][ \A s \in Streams :
        (/\ last'.op # "publishImageTopic"
         /\ \/ camera_info_'[s] # camera_info_[s]
            \/ (s \in image_pub_') # (s \in image_pub_))
          => ~Streaming(pipeline_, s) ]_vars

\* a handler ran while DEPTH was streaming, after the callback thread had
\* stamped the calibration record that startPipeline filled
C17_Witness ==
  /\ last.op = "toggleStream"
  /\ last.result = Ok
  /\ Streaming(pipeline_, DEPTH)
  /\ Populated(camera_info_[DEPTH])
  /\ camera_info_[DEPTH].stamp = MaxTime
  /\ DEPTH \in image_pub_

\* the call is toggleStream(s, true)
EnableCall(call, s) ==
  call.op = "toggleStream" /\ call.stream = s /\ call.param = BoolParam(TRUE)

UnresolvedRejection(call) ==
  /\ call.op \in {"changeResolution", "changeFPS"}
  /\ ReturnedFalse(call)
  /\ call.result.reason \in UnresolvedReasons

\* the request such a call proposed for its stream, given stream_info_
ProposalOf(call, info) ==
  IF call.op = "changeResolution"
    THEN VideoRequest(ToInt(call.param.arr[1]), ToInt(call.param.arr[2]),
                      info[call.stream].fps)
    ELSE VideoRequest(info[call.stream].width, info[call.stream].height,
                      ToInt(call.param.i))

\* C19: a pipeline start made by the call that follows a rejected
\* changeResolution or changeFPS is not given a configuration that holds
\* the rejected proposal, where that proposal differs from stream_info_.
C19_NoStartWithRejectedProposal ==
  [][ (/\ UnresolvedRejection(last)
       /\ ProfileOf(ProposalOf(last, stream_info_)) # stream_info_[last.stream]
       /\ CallReturns
       /\ StartAttempted(trace'))
        => cfg_'[last.stream] # ProposalOf(last, stream_info_) ]_vars

\* the configuration the committed state stands for: the enabled streams,
\* each with its stream_info_
CommittedConfig(enable, info) ==
  [s \in Streams |->
     IF enable[s] THEN VideoRequest(info[s].width, info[s].height, info[s].fps)
     ELSE NoRequest]

\* C20: whether changeResolution or changeFPS on a stream is accepted
\* depends on its proposal and on the committed enable_ and stream_info_
\* only: a call whose proposal resolves together with the committed
\* requests of the other streams is not rejected by can_resolve, whatever
\* was requested and rejected for another stream before.
C20_AcceptanceDependsOnCommittedState ==
  [][ (/\ CallReturns
       /\ last'.op \in {"changeResolution", "changeFPS"}
       /\ EarlyReason(last', enable_) = ""
       /\ can_resolve([CommittedConfig(enable_, stream_info_)
                         EXCEPT ![last'.stream] = ProposalOf(last', stream_info_)]))
        => ~UnresolvedRejection(last') ]_vars

====
